---- MODULE Spec2Model ----
(***************************************************************************)
(* A state-machine model of the experiment harness of opendataval:         *)
(*   src/dataoob/evaluator/exper_methods.py  (point_removal,               *)
(*       remove_high_low, discover_corrupted_sample,                       *)
(*       increasing_bin_removal, noisy_detection)                          *)
(*   src/opendataval/util.py                 (ParamSweep, MeanStdTime)     *)
(*                                                                         *)
(* Python lists and numpy arrays are TLA+ sequences; a Python index i is   *)
(* position i + 1 of the sequence.  Floats that the code computes by       *)
(* division are kept as exact fractions <<numerator, denominator>>; data   *)
(* values are integers standing for the floats of the value array (only    *)
(* their order and their ratios matter to the code modelled here).         *)
(* The Loader, the DataEvaluator and the prediction model are external:    *)
(* what they return is drawn from small sets when the code reads it, and   *)
(* every call the code makes on a model object is written to the log       *)
(* `calls`.                                                                *)
(*                                                                         *)
(* Spec is the four range-loop procedures and ParamSweep.sweep; SpecNoisy  *)
(* is noisy_detection; SpecSizes is the bin arithmetic alone, for larger n.*)
(***************************************************************************)
EXTENDS Integers, Sequences, FiniteSets, TLC

\* ---------------------------------------------------------------- bounds
\* Largest training-set size n = len(x_train) = len(data_values).
MaxN == 6
\* Largest training-set size of increasing_bin_removal, whose first boundary
\* is 5: a second boundary needs 7 points.
MaxNIncreasing == 7
\* Data-value arrays i |-> (a * i) % m are drawn for every modulus m <= MaxMod.
MaxMod == 3
\* Largest bin_size passed to increasing_bin_removal.
MaxBinSize == 2
\* Longest candidate sequence of one hyperparameter in ParamSweep.sweep.
MaxCand == 2
\* Largest ParamSweep.samples.
MaxSamples == 2
\* Largest n of the sizing arithmetic taken on its own (SpecSizes): a second
\* axis entry needs 10 points, a second stepped boundary with bin_size 2 needs 9.
MaxNSizes == 12

\* ------------------------------------------------------ program constants
\* "Add at least 5 per bin": the literal 5 of max(round(n * percentile), 5).
MinBinSize == 5
\* The first boundary of increasing_bin_removal: range(5, num_points - 1, bin_size).
FirstBinEnd == 5

\* ------------------------------------------------------------ input sets
\* percentile as an exact fraction <<numerator, denominator>>; 1/20 is the
\* default 0.05.
Percentiles == {<<1, 20>>, <<9, 10>>, <<1, 1>>}

Orders == {"ascending", "descending", "random"}

\* The default metric_name of every procedure.
MetricName == "accuracy"

\* The worked value arrays of the specification, scaled to integers:
\* [0.1,0.5,0.3,0.9,0.2] and [0,0,0,9,9,9].
ExampleArrays == {<<1, 5, 3, 9, 2>>, <<0, 0, 0, 9, 9, 9>>}

\* What evaluator.evaluate_data_values() may return for n training points:
\* periodic arrays (with ties, the all-zero array among them), the two
\* strictly monotone arrays, and the worked examples of length n.
DataValueArrays(n) ==
    UNION {{[i \in 1..n |-> (a * (i - 1)) % m] : a \in 0..(m - 1)} : m \in 1..MaxMod}
    \cup {[i \in 1..n |-> i - 1], [i \in 1..n |-> n - i]}
    \cup {e \in ExampleArrays : Len(e) = n}

\* ------------------------------------------------------- Python helpers
Max(a, b) == IF a >= b THEN a ELSE b
Min(a, b) == IF a <= b THEN a ELSE b

\* len(range(start, stop, step)) for step > 0.
RangeLen(start, stop, step) ==
    IF stop <= start THEN 0 ELSE (stop - start + step - 1) \div step

\* list(range(start, stop, step)) for step > 0.
Range(start, stop, step) ==
    [k \in 1..RangeLen(start, stop, step) |-> start + (k - 1) * step]

\* Python's round() of the non-negative fraction num / den: to the nearest
\* integer, a tie going to the even one.
Round(num, den) ==
    LET q == num \div den
        r == num % den
    IN  IF 2 * r < den THEN q
        ELSE IF 2 * r > den THEN q + 1
        ELSE IF q % 2 = 0 THEN q ELSE q + 1

\* s[b:] for b >= 0.
SliceFrom(s, b) == SubSeq(s, Min(b, Len(s)) + 1, Len(s))

\* s[:e]; a negative e counts from the end, as in Python.
SliceTo(s, e) ==
    IF e >= 0 THEN SubSeq(s, 1, Min(e, Len(s)))
    ELSE SubSeq(s, 1, Max(Len(s) + e, 0))

\* The elements of a sequence.
Elems(s) == {s[k] : k \in 1..Len(s)}

\* num_period = max(round(num_points * percentile), 5)
NumPeriod(n, pct) == Max(Round(n * pct[1], pct[2]), MinBinSize)

\* Variant: The rounded-up quotient, the number of loop boundaries.
NumBinsCeil(n, period) == (n + period - 1) \div period
\* num_bins = int(num_points // num_period)
NumBins(n, period) == n \div period

\* ------------------------------------------------------------- orderings
\* Every permutation of the index set S, as a sequence.
RECURSIVE PermSeqs(_)
PermSeqs(S) ==
    IF S = {} THEN {<<>>}
    ELSE UNION {{<<x>> \o p : p \in PermSeqs(S \ {x})} : x \in S}

\* np.random.permutation(num_points): any permutation of 0..n-1.
RandomPermutations(n) == PermSeqs(0..(n - 1))

\* The orderings of the index set S in which the values never decrease.
RECURSIVE SortedSeqs(_, _)
SortedSeqs(S, values) ==
    IF S = {} THEN {<<>>}
    ELSE LET least == {x \in S : \A y \in S : values[x + 1] <= values[y + 1]}
         IN  UNION {{<<x>> \o p : p \in SortedSeqs(S \ {x}, values)} : x \in least}

\* np.argsort(values) with the default kind: the order of equal values is
\* not specified, so every ascending ordering is a possible outcome.
ArgSorts(values) == SortedSeqs(0..(Len(values) - 1), values)

\* Variant: The array itself, as if the sign were dropped.
Unnegated(values) == values
\* -values of a numpy array.
Negated(values) == [i \in 1..Len(values) |-> 0 - values[i]]

\* np.argsort(values, kind="stable"): equal values keep their index order.
RECURSIVE StableSeq(_, _)
StableSeq(S, values) ==
    IF S = {} THEN <<>>
    ELSE LET x == CHOOSE x \in S : \A y \in S :
                      \/ values[x + 1] < values[y + 1]
                      \/ values[x + 1] = values[y + 1] /\ x <= y
         IN  <<x>> \o StableSeq(S \ {x}, values)

ArgSortStable(values) == StableSeq(0..(Len(values) - 1), values)

\* The match statement of point_removal.
OrderingsFor(ord, values) ==
    CASE ord = "ascending" -> ArgSorts(values)
      [] ord = "descending" -> ArgSorts(Negated(values))
      [] ord = "random" -> RandomPermutations(Len(values))

\* ------------------------------------------------------------ the x axis
\* Variant: The division hoisted out of the comprehension: evaluated once, always.
AxisDivisorsHoisted(bins) == {bins}
\* The divisors evaluated by [i * (1.0 / num_bins) for i in range(num_bins)]:
\* one division per element of range(num_bins).
AxisDivisors(bins) == {bins : i \in 0..(bins - 1)}

\* The comprehension raises ZeroDivisionError iff it divides by zero.
AxisRaises(bins) == 0 \in AxisDivisors(bins)

\* x_axis: entry i (Python index) is the fraction i / num_bins.
XAxis(bins) == [k \in 1..bins |-> <<k - 1, bins>>]

\* ------------------------------------------------------------- fractions
\* x <= y and x = y for fractions with positive denominators.
FracLeq(x, y) == x[1] * y[2] <= y[1] * x[2]
FracEq(x, y) == x[1] * y[2] = y[1] * x[2]
FracMin(x, y) == IF FracLeq(x, y) THEN x ELSE y

\* ------------------------------------------- discover_corrupted_sample
\* Every value loader.noisy_indices may hold for n training points.
NoisySets(n) == SUBSET (0..(n - 1))

\* len(np.intersect1d(sorted_value_list[:bin_index], noisy_indices))
FoundCount(svl, b, noisy) == Cardinality(Elems(SliceTo(svl, b)) \cap noisy)

\* y_opt = [min((a * (1.0 / num_bins / noise_rate), 1.0)) for a in range(num_bins)]
\* with noise_rate = len(noisy_indices) / len(data_values) = k / n.
YOpt(bins, k, n) == [a \in 1..bins |-> FracMin(<<(a - 1) * n, bins * k>>, <<1, 1>>)]

\* ---------------------------------------------- increasing_bin_removal
\* Variant: the stepped boundaries without the final one.
BinsIndicesOpen(n, bsize) == Range(FirstBinEnd, n - 1, bsize)
\* bins_indices = [*range(5, num_points - 1, bin_size), num_points - 1]
BinsIndices(n, bsize) == Range(FirstBinEnd, n - 1, bsize) \o <<n - 1>>

\* frac_datapoints_explored = [(i + 1) / num_points for i in bins_indices]
FracExplored(bins, n) == [k \in 1..Len(bins) |-> <<bins[k] + 1, n>>]

\* np.max(data_values)
MaxOf(values) == CHOOSE v \in Elems(values) : \A w \in Elems(values) : w <= v

\* a[i] for a numpy array or list: a negative i counts from the end.
At(s, i) == IF i >= 0 THEN s[i + 1] ELSE s[Len(s) + i + 1]

\* x_axis = data_values[sorted_indices[bins_indices]] / np.max(data_values):
\* numpy divides element by element and raises nothing; an entry with
\* denominator 0 is the NaN or infinity numpy stores for it.
ThresholdAxis(values, sorted, bins) ==
    [k \in 1..Len(bins) |-> <<At(values, At(sorted, bins[k])), MaxOf(values)>>]

\* ----------------------------------------------------------- ParamSweep
\* The keyword names of sweep(**kwargs_list), in the order they are passed.
KeyNames == <<"lr", "epochs">>

\* Every candidate sequence of one hyperparameter: values may repeat.
RECURSIVE SeqsUpTo(_, _)
SeqsUpTo(S, len) ==
    IF len = 0 THEN {<<>>}
    ELSE LET shorter == SeqsUpTo(S, len - 1)
         IN  shorter \cup {Append(s, x) : s \in shorter, x \in S}

CandidateSeqs == SeqsUpTo(1..MaxCand, MaxCand)

\* Every kwargs_list: the first k keyword names, each with a candidate sequence.
KwargsLists ==
    UNION {[1..k -> CandidateSeqs] : k \in 0..Len(KeyNames)}

\* Variant: zip(*kwarg_list.values()) in place of the product, position by position.
ProductZip(cands) ==
    LET lens == {Len(cands[j]) : j \in 1..Len(cands)}
        shortest == IF lens = {} THEN 0 ELSE CHOOSE m \in lens : \A l \in lens : m <= l
    IN  [k \in 1..shortest |-> [j \in 1..Len(cands) |-> cands[j][k]]]

\* list(itertools.product(*kwarg_list.values())): the last sequence varies
\* fastest; the product of no sequences is the one empty tuple.
RECURSIVE Product(_)
Product(cands) ==
    IF cands = <<>> THEN << <<>> >>
    ELSE LET h == Head(cands)
             rest == Product(Tail(cands))
         IN  [k \in 1..(Len(h) * Len(rest)) |->
                 <<h[((k - 1) \div Len(rest)) + 1]>> \o rest[((k - 1) % Len(rest)) + 1]]

\* str(dict(zip(keys, instance))), e.g. "{'lr': 1, 'epochs': 2}".
RECURSIVE StrItems(_, _)
StrItems(instance, k) ==
    IF k > Len(instance) THEN ""
    ELSE (IF k > 1 THEN ", " ELSE "")
         \o "'" \o KeyNames[k] \o "': " \o ToString(instance[k])
         \o StrItems(instance, k + 1)

StrKwargs(instance) == "{" \o StrItems(instance, 1) \o "}"

\* MeanStdTime(input_data, elapsed_time): the mean and the ddof=1 deviation
\* are functions of input_data; avg_time divides by len(input_data).
MeanStdTime(input_data) ==
    [mean_of |-> input_data, std_ddof |-> 1, avg_time_over |-> Len(input_data)]

\* elapsed_time / len(input_data) raises ZeroDivisionError on an empty list.
MeanStdTimeRaises(input_data) == Len(input_data) = 0

\* d[key] = value on a dict.
DictSet(d, key, value) ==
    [k \in DOMAIN d \cup {key} |-> IF k = key THEN value ELSE d[k]]

VARIABLES
    pc,                \* "idle" | "loop" | "done" | "raised"
    proc,              \* the procedure called
    order,             \* point_removal's order
    percentile,        \* <<numerator, denominator>>
    plot,              \* discover_corrupted_sample: plot is not None
    bin_size,          \* increasing_bin_removal's bin_size
    kwargs_list,       \* sweep's candidate sequences, one per keyword
    samples,           \* ParamSweep.samples
    data_values,       \* evaluator.evaluate_data_values()
    noisy_indices,     \* loader.noisy_indices
    num_points,
    num_period,
    num_bins,
    sorted_value_list, \* sorted_indices in increasing_bin_removal
    bins_indices,      \* increasing_bin_removal
    bin_index,         \* the loop variable of the range loops: the next boundary
    bin_pos,           \* increasing_bin_removal: boundaries already handled
    combo_i,           \* sweep: combinations already recorded
    metric_list,       \* point_removal
    valuable_list,     \* remove_high_low
    unvaluable_list,   \* remove_high_low
    found_rates,       \* discover_corrupted_sample
    perf,              \* increasing_bin_removal
    perf_list,         \* sweep: the scores of the current combination
    self_result,       \* ParamSweep.result
    models,            \* every model object: models[1] is the template
    curr_model,        \* the index in models of what curr_model refers to
    calls,             \* the log of fit / predict / evaluate calls
    kmeans_labels,     \* noisy_detection: kmeans.labels_
    validation,        \* noisy_detection
    result,            \* the returned dict (empty until returned)
    error              \* "none" or the exception that ended the call

vars == <<pc, proc, order, percentile, plot, bin_size, kwargs_list, samples,
          data_values, noisy_indices, num_points, num_period, num_bins,
          sorted_value_list, bins_indices, bin_index, bin_pos, combo_i,
          metric_list, valuable_list, unvaluable_list, found_rates, perf,
          perf_list, self_result, models, curr_model, calls, kmeans_labels,
          validation, result, error>>

args == <<order, percentile, plot, bin_size, kwargs_list, samples>>
locals == <<data_values, noisy_indices, num_points, num_period, num_bins,
            sorted_value_list, bins_indices>>
counters == <<bin_index, bin_pos, combo_i>>
series == <<metric_list, valuable_list, unvaluable_list, found_rates, perf,
            perf_list, self_result>>
clustering == <<kmeans_labels, validation>>

\* ----------------------------------------------------------- the models
\* A model object: how often fit was called on it, the object it was cloned
\* from (0 for the template) and the loop iteration that cloned it (-1 when
\* it exists before the loop).
Template == [fits |-> 0, parent |-> 0, made_in |-> -1]

\* model.clone(): a new, independent object.
Clone(ms, parent, iter) ==
    Append(ms, [fits |-> 0, parent |-> parent, made_in |-> iter])

\* model.fit(...) mutates the object it is called on.
Fit(ms, m) == [ms EXCEPT ![m].fits = @ + 1]

\* Variant: Fitting the shared curr_model in place of the fresh clone.
FitTargetShared(curr, new) == curr
\* The object new_model.fit(...) is called on, given what curr_model and
\* new_model refer to.
FitTarget(curr, new) == new

\* The calls on a model object.  `first` is the first argument of
\* evaluate: "y_true" for evaluate(y, y_hat), "y_hat" for evaluate(y_hat, y).
FitCall(m, iter, train) ==
    [op |-> "fit", model |-> m, iter |-> iter, train |-> train, on |-> "train",
     first |-> "", kwargs |-> <<>>]
PredictCall(m, iter, split) ==
    [op |-> "predict", model |-> m, iter |-> iter, train |-> <<>>, on |-> split,
     first |-> "", kwargs |-> <<>>]
EvaluateCall(m, iter, split, first) ==
    [op |-> "evaluate", model |-> m, iter |-> iter, train |-> <<>>, on |-> split,
     first |-> first, kwargs |-> <<>>]

\* curr_model.fit(self.x_train, self.y_train, **kwargs) in sweep: the whole
\* training split, which sweep never indexes, with one combination.
SweepFitCall(m, iter, instance) ==
    [op |-> "fit", model |-> m, iter |-> iter, train |-> <<>>, on |-> "train",
     first |-> "", kwargs |-> instance]

\* evaluator.evaluate(y, new_model.predict(x)) for a model fitted on `train`:
\* with a deterministic model the score is a function of the training
\* sequence and of the split scored on.
Score(train, split) == [train |-> train, split |-> split]

\* Variant: An exception that is recorded while the loop goes on.
Swallow(e) == pc' = pc /\ error' = e
\* An exception nothing catches ends the call: no procedure has a try.
Raise(e) == pc' = "raised" /\ error' = e

Init ==
    /\ pc = "idle"
    /\ proc = "none"
    /\ order = "none"
    /\ percentile = <<0, 1>>
    /\ plot = FALSE
    /\ bin_size = 0
    /\ kwargs_list = <<>>
    /\ samples = 0
    /\ data_values = <<>>
    /\ noisy_indices = {}
    /\ num_points = 0
    /\ num_period = 0
    /\ num_bins = 0
    /\ sorted_value_list = <<>>
    /\ bins_indices = <<>>
    /\ bin_index = 0
    /\ bin_pos = 0
    /\ combo_i = 0
    /\ metric_list = <<>>
    /\ valuable_list = <<>>
    /\ unvaluable_list = <<>>
    /\ found_rates = <<>>
    /\ perf = <<>>
    /\ perf_list = <<>>
    /\ self_result = <<>>
    /\ models = <<Template>>
    /\ curr_model = 1
    /\ calls = <<>>
    /\ kmeans_labels = <<>>
    /\ validation = <<>>
    /\ result = <<>>
    /\ error = "none"

\* ---------------------------------------------------------- point_removal
\* Lines 98-115: read the inputs, size the bins, order the indices.
point_removal_enter ==
    /\ pc = "idle"
    /\ \E n \in 0..MaxN, ord \in Orders, pct \in Percentiles :
         \E dv \in DataValueArrays(n) :
           \E svl \in OrderingsFor(ord, dv) :
             /\ order' = ord
             /\ percentile' = pct
             /\ data_values' = dv
             /\ num_points' = Len(dv)
             /\ num_period' = NumPeriod(Len(dv), pct)
             /\ num_bins' = NumBins(Len(dv), NumPeriod(Len(dv), pct))
             /\ sorted_value_list' = svl
    /\ models' = Clone(models, 1, -1)
    /\ curr_model' = Len(models) + 1
    /\ proc' = "point_removal"
    /\ pc' = "loop"
    /\ UNCHANGED <<plot, bin_size, kwargs_list, samples, noisy_indices, bins_indices,
                   counters, series, calls, result, error, clustering>>

\* Lines 117-130: one iteration of the loop over range(0, num_points, num_period).
point_removal_bin ==
    /\ pc = "loop"
    /\ proc = "point_removal"
    /\ bin_index < num_points
    /\ LET sorted_value_coalition == SliceFrom(sorted_value_list, bin_index)
           new_model == Len(models) + 1
           fitted == FitTarget(curr_model, new_model)
       IN  /\ models' = Fit(Clone(models, curr_model, bin_index), fitted)
           /\ \/ /\ calls' = calls \o <<FitCall(fitted, bin_index, sorted_value_coalition),
                                       PredictCall(new_model, bin_index, "valid"),
                                       EvaluateCall(new_model, bin_index, "valid", "y_true")>>
                 /\ metric_list' = Append(metric_list, Score(sorted_value_coalition, "valid"))
                 /\ bin_index' = bin_index + num_period
                 /\ UNCHANGED <<pc, error>>
              \/ /\ calls' = Append(calls, FitCall(fitted, bin_index, sorted_value_coalition))
                 /\ Raise("FitError")
                 /\ UNCHANGED <<metric_list, bin_index>>
    /\ UNCHANGED <<proc, args, locals, bin_pos, combo_i, valuable_list, unvaluable_list,
                   found_rates, perf, perf_list, self_result, curr_model, result,
                   clustering>>

\* Lines 132-142: build the axis and return.
point_removal_return ==
    /\ pc = "loop"
    /\ proc = "point_removal"
    /\ bin_index >= num_points
    /\ IF AxisRaises(num_bins)
       THEN Raise("ZeroDivisionError") /\ UNCHANGED result
       ELSE /\ pc' = "done"
            /\ result' = ((order \o "_add_" \o MetricName) :> metric_list)
                         @@ ("axis" :> XAxis(num_bins))
            /\ UNCHANGED error
    /\ UNCHANGED <<proc, args, locals, counters, series, models, curr_model, calls,
                   clustering>>

\* -------------------------------------------------------- remove_high_low
\* Variant: the prefix of the same length instead of the suffix.
MostValuablePrefix(svl, b) == SliceTo(svl, Len(svl) - b)
\* most_valuable_indices = sorted_value_list[bin_index:]
MostValuable(svl, b) == SliceFrom(svl, b)

\* Variant: The slice one element short.
LeastValuableShort(svl, n, b) == SliceTo(svl, n - b - 1)
\* least_valuable_indices = sorted_value_list[: num_points - bin_index]
LeastValuable(svl, n, b) == SliceTo(svl, n - b)

\* Lines 185-195.
remove_high_low_enter ==
    /\ pc = "idle"
    /\ \E n \in 0..MaxN, pct \in Percentiles :
         \E dv \in DataValueArrays(n) :
           \E svl \in ArgSorts(dv) :
             /\ percentile' = pct
             /\ data_values' = dv
             /\ num_points' = n
             /\ num_period' = NumPeriod(n, pct)
             /\ num_bins' = NumBins(n, NumPeriod(n, pct))
             /\ sorted_value_list' = svl
    /\ models' = Clone(models, 1, -1)
    /\ curr_model' = Len(models) + 1
    /\ proc' = "remove_high_low"
    /\ pc' = "loop"
    /\ UNCHANGED <<order, plot, bin_size, kwargs_list, samples, noisy_indices,
                   bins_indices, counters, series, calls, result, error, clustering>>

\* Lines 197-225: one iteration, two fit-and-score cycles.
remove_high_low_bin ==
    /\ pc = "loop"
    /\ proc = "remove_high_low"
    /\ bin_index < num_points
    /\ LET most_valuable_indices == MostValuable(sorted_value_list, bin_index)
           least_valuable_indices == LeastValuable(sorted_value_list, num_points, bin_index)
           valuable_model == Len(models) + 1
           unvaluable_model == Len(models) + 2
           fitted1 == FitTarget(curr_model, valuable_model)
           fitted2 == FitTarget(curr_model, unvaluable_model)
           models1 == Fit(Clone(models, curr_model, bin_index), fitted1)
           calls1 == <<FitCall(fitted1, bin_index, most_valuable_indices),
                       PredictCall(valuable_model, bin_index, "test"),
                       EvaluateCall(valuable_model, bin_index, "test", "y_true")>>
           calls2 == <<FitCall(fitted2, bin_index, least_valuable_indices),
                       PredictCall(unvaluable_model, bin_index, "test"),
                       EvaluateCall(unvaluable_model, bin_index, "test", "y_true")>>
       IN  \/ /\ models' = models1
              /\ calls' = Append(calls, calls1[1])
              /\ Raise("FitError")
              /\ UNCHANGED <<valuable_list, unvaluable_list, bin_index>>
           \/ /\ models' = Fit(Clone(models1, curr_model, bin_index), fitted2)
              /\ calls' = calls \o calls1 \o <<calls2[1]>>
              /\ valuable_list' = Append(valuable_list, Score(most_valuable_indices, "test"))
              /\ Raise("FitError")
              /\ UNCHANGED <<unvaluable_list, bin_index>>
           \/ /\ models' = Fit(Clone(models1, curr_model, bin_index), fitted2)
              /\ calls' = calls \o calls1 \o calls2
              /\ valuable_list' = Append(valuable_list, Score(most_valuable_indices, "test"))
              /\ unvaluable_list' = Append(unvaluable_list, Score(least_valuable_indices, "test"))
              /\ bin_index' = bin_index + num_period
              /\ UNCHANGED <<pc, error>>
    /\ UNCHANGED <<proc, args, locals, bin_pos, combo_i, metric_list, found_rates, perf,
                   perf_list, self_result, curr_model, result, clustering>>

\* Lines 227-247.
remove_high_low_return ==
    /\ pc = "loop"
    /\ proc = "remove_high_low"
    /\ bin_index >= num_points
    /\ IF AxisRaises(num_bins)
       THEN Raise("ZeroDivisionError") /\ UNCHANGED result
       ELSE /\ pc' = "done"
            /\ result' = (("remove_mostval_" \o MetricName) :> valuable_list)
                         @@ (("remove_leastval_" \o MetricName) :> unvaluable_list)
                         @@ ("axis" :> XAxis(num_bins))
            /\ UNCHANGED error
    /\ UNCHANGED <<proc, args, locals, counters, series, models, curr_model, calls,
                   clustering>>

\* ---------------------------------------------- discover_corrupted_sample
\* Variant: The stop without the extra step.
DiscoverStopShort(n, period) == n
\* The stop of the loop: range(0, num_points + num_period, num_period).
DiscoverStop(n, period) == n + period

\* Lines 288-300; noise_rate = len(noisy_indices) / len(data_values) divides
\* by the number of points.
discover_corrupted_sample_enter ==
    /\ pc = "idle"
    /\ \E n \in 0..MaxN, pct \in Percentiles, plt \in BOOLEAN :
         \E dv \in DataValueArrays(n), noisy \in NoisySets(n) :
             /\ percentile' = pct
             /\ plot' = plt
             /\ data_values' = dv
             /\ noisy_indices' = noisy
             /\ num_points' = n
             /\ num_period' = NumPeriod(n, pct)
             /\ num_bins' = NumBins(n, NumPeriod(n, pct)) + 1
             /\ sorted_value_list' = ArgSortStable(dv)
             /\ IF Len(dv) = 0
                THEN Raise("ZeroDivisionError")
                ELSE pc' = "loop" /\ UNCHANGED error
    /\ proc' = "discover_corrupted_sample"
    /\ UNCHANGED <<order, bin_size, kwargs_list, samples, bins_indices, counters, series,
                   models, curr_model, calls, result, clustering>>

\* Variant: the division guarded, so that it never raises.
FoundRateGuarded(noisy) == FALSE
\* Lines 305-308: len(np.intersect1d(...)) / len(noisy_indices) raises when
\* noisy_indices is empty.
FoundRateRaises(noisy) == Cardinality(noisy) = 0

\* Lines 303-308: one prefix; the rate divides by len(noisy_indices).
discover_corrupted_sample_bin ==
    /\ pc = "loop"
    /\ proc = "discover_corrupted_sample"
    /\ bin_index < DiscoverStop(num_points, num_period)
    /\ IF FoundRateRaises(noisy_indices)
       THEN Raise("ZeroDivisionError") /\ UNCHANGED <<found_rates, bin_index>>
       ELSE /\ found_rates' = Append(found_rates,
                                 <<FoundCount(sorted_value_list, bin_index, noisy_indices),
                                   Cardinality(noisy_indices)>>)
            /\ bin_index' = bin_index + num_period
            /\ UNCHANGED <<pc, error>>
    /\ UNCHANGED <<proc, args, locals, bin_pos, combo_i, metric_list, valuable_list,
                   unvaluable_list, perf, perf_list, self_result, models, curr_model,
                   calls, result, clustering>>

\* Lines 310-333.
discover_corrupted_sample_return ==
    /\ pc = "loop"
    /\ proc = "discover_corrupted_sample"
    /\ bin_index >= DiscoverStop(num_points, num_period)
    /\ IF AxisRaises(num_bins)
       THEN Raise("ZeroDivisionError") /\ UNCHANGED result
       ELSE /\ pc' = "done"
            /\ result' =
                 LET eval_results == ("corrupt_found" :> found_rates)
                                     @@ ("axis" :> XAxis(num_bins))
                 IN  IF plot
                     THEN eval_results
                          @@ ("optimal" :> YOpt(num_bins, Cardinality(noisy_indices),
                                                Len(data_values)))
                          @@ ("random" :> XAxis(num_bins))
                     ELSE eval_results
            /\ UNCHANGED error
    /\ UNCHANGED <<proc, args, locals, counters, series, models, curr_model, calls,
                   clustering>>

\* ------------------------------------------------- increasing_bin_removal
\* Lines 396-410; curr_model is evaluator.pred_model itself, not a clone.
\* frac_datapoints_explored divides by num_points.
increasing_bin_removal_enter ==
    /\ pc = "idle"
    /\ \E n \in 0..MaxNIncreasing, bsize \in 1..MaxBinSize :
         \E dv \in DataValueArrays(n) :
           \E sorted_indices \in ArgSorts(dv) :
             /\ bin_size' = bsize
             /\ data_values' = dv
             /\ num_points' = Len(dv)
             /\ bins_indices' = BinsIndices(Len(dv), bsize)
             /\ IF Len(dv) = 0
                THEN Raise("ZeroDivisionError") /\ UNCHANGED sorted_value_list
                ELSE /\ sorted_value_list' = sorted_indices
                     /\ pc' = "loop"
                     /\ UNCHANGED error
    /\ curr_model' = 1
    /\ proc' = "increasing_bin_removal"
    /\ UNCHANGED <<order, percentile, plot, kwargs_list, samples, noisy_indices,
                   num_period, num_bins, counters, series, models, calls, result,
                   clustering>>

\* Lines 412-422: one boundary.
increasing_bin_removal_bin ==
    /\ pc = "loop"
    /\ proc = "increasing_bin_removal"
    /\ bin_pos < Len(bins_indices)
    /\ LET bin_end == bins_indices[bin_pos + 1]
           coalition == SliceTo(sorted_value_list, bin_end)
           new_model == Len(models) + 1
           fitted == FitTarget(curr_model, new_model)
       IN  /\ models' = Fit(Clone(models, curr_model, bin_end), fitted)
           /\ \/ /\ calls' = calls \o <<FitCall(fitted, bin_end, coalition),
                                       PredictCall(new_model, bin_end, "test"),
                                       EvaluateCall(new_model, bin_end, "test", "y_hat")>>
                 /\ perf' = Append(perf, Score(coalition, "test"))
                 /\ bin_pos' = bin_pos + 1
                 /\ UNCHANGED <<pc, error>>
              \/ /\ calls' = Append(calls, FitCall(fitted, bin_end, coalition))
                 /\ Raise("FitError")
                 /\ UNCHANGED <<perf, bin_pos>>
    /\ UNCHANGED <<proc, args, locals, bin_index, combo_i, metric_list, valuable_list,
                   unvaluable_list, found_rates, perf_list, self_result, curr_model,
                   result, clustering>>

\* Lines 424-444.
increasing_bin_removal_return ==
    /\ pc = "loop"
    /\ proc = "increasing_bin_removal"
    /\ bin_pos >= Len(bins_indices)
    /\ pc' = "done"
    /\ result' = ("frac_datapoints_explored" :> FracExplored(bins_indices, num_points))
                 @@ ((MetricName \o "_at_datavalues") :> perf)
                 @@ ("axis" :> ThresholdAxis(data_values, sorted_value_list, bins_indices))
    /\ UNCHANGED <<proc, args, locals, counters, series, models, curr_model, calls,
                   error, clustering>>

\* ------------------------------------------------------- ParamSweep.sweep
\* list(self._param_product(**kwargs_list)), as tuples of values in key order.
Combos == Product(kwargs_list)

\* Line 46: self.result = {}.  self.model is models[1].
sweep_enter ==
    /\ pc = "idle"
    /\ \E kl \in KwargsLists, s \in 0..MaxSamples :
         /\ kwargs_list' = kl
         /\ samples' = s
    /\ self_result' = <<>>
    /\ proc' = "sweep"
    /\ pc' = "loop"
    /\ UNCHANGED <<order, percentile, plot, bin_size, locals, counters, metric_list,
                   valuable_list, unvaluable_list, found_rates, perf, perf_list, models,
                   curr_model, calls, result, error, clustering>>

\* Lines 50-55: one sample of the current combination.
sweep_sample ==
    /\ pc = "loop"
    /\ proc = "sweep"
    /\ combo_i < Len(Combos)
    /\ Len(perf_list) < samples
    /\ LET kwargs == Combos[combo_i + 1]
           iter == combo_i * samples + Len(perf_list)
           new_model == Len(models) + 1
           fitted == FitTarget(1, new_model)
       IN  /\ models' = Fit(Clone(models, 1, iter), fitted)
           /\ curr_model' = new_model
           /\ \/ /\ calls' = calls \o <<SweepFitCall(fitted, iter, kwargs),
                                       PredictCall(new_model, iter, "valid"),
                                       EvaluateCall(new_model, iter, "valid", "y_hat")>>
                 /\ perf_list' = Append(perf_list, [train |-> "x_train", kwargs |-> kwargs])
                 /\ UNCHANGED <<pc, error>>
              \/ /\ calls' = Append(calls, SweepFitCall(fitted, iter, kwargs))
                 /\ Raise("FitError")
                 /\ UNCHANGED perf_list
    /\ UNCHANGED <<proc, args, locals, counters, metric_list, valuable_list,
                   unvaluable_list, found_rates, perf, self_result, result, clustering>>

\* Lines 48-49 and 56-58: the samples of one combination are done; record
\* them under str(kwargs) and start the next combination.
sweep_record ==
    /\ pc = "loop"
    /\ proc = "sweep"
    /\ combo_i < Len(Combos)
    /\ Len(perf_list) >= samples
    /\ IF MeanStdTimeRaises(perf_list)
       THEN Raise("ZeroDivisionError") /\ UNCHANGED <<self_result, combo_i, perf_list>>
       ELSE /\ self_result' = DictSet(self_result, StrKwargs(Combos[combo_i + 1]),
                                      MeanStdTime(perf_list))
            /\ combo_i' = combo_i + 1
            /\ perf_list' = <<>>
            /\ UNCHANGED <<pc, error>>
    /\ UNCHANGED <<proc, args, locals, bin_index, bin_pos, metric_list, valuable_list,
                   unvaluable_list, found_rates, perf, models, curr_model, calls, result,
                   clustering>>

\* Line 59: return self.result.
sweep_return ==
    /\ pc = "loop"
    /\ proc = "sweep"
    /\ combo_i >= Len(Combos)
    /\ pc' = "done"
    /\ result' = self_result
    /\ UNCHANGED <<proc, args, locals, counters, series, models, curr_model, calls,
                   error, clustering>>

\* -------------------------------------------------------- noisy_detection
\* The sum of values over the positions in S.
RECURSIVE SumAt(_, _)
SumAt(values, S) ==
    IF S = {} THEN 0
    ELSE LET i == CHOOSE j \in S : TRUE
         IN  values[i] + SumAt(values, S \ {i})

\* The positions of the values up to the threshold t and of those above it.
LowAt(values, t) == {i \in 1..Len(values) : values[i] <= t}
HighAt(values, t) == {i \in 1..Len(values) : values[i] > t}

\* A partition KMeans can stop at: every point is nearest to the mean of its
\* own cluster, so the midpoint of the two means separates the clusters:
\*     max(low) <= (mean(low) + mean(high)) / 2 <= min(high).
LloydStable(values, t) ==
    LET low == LowAt(values, t)
        high == HighAt(values, t)
        cl == Cardinality(low)
        ch == Cardinality(high)
        twice_mid_num == SumAt(values, low) * ch + SumAt(values, high) * cl
    IN  /\ \A i \in low : 2 * cl * ch * values[i] <= twice_mid_num
        /\ \A i \in high : twice_mid_num <= 2 * cl * ch * values[i]

\* KMeans(n_clusters=2).fit(values).labels_: by convexity the two clusters
\* are the values up to some threshold and the values above it; which stable
\* partition is found and which of the identifiers 0 and 1 names the low
\* cluster depend on the random initialisation.  With a single distinct value
\* all points are nearest to centre 0.
KMeansLabels(values) ==
    LET thresholds == {t \in Elems(values) \ {MaxOf(values)} : LloydStable(values, t)}
    IN  IF Cardinality(Elems(values)) < 2
        THEN {[i \in 1..Len(values) |-> 0]}
        ELSE {[i \in 1..Len(values) |-> IF values[i] <= c[1] THEN c[2] ELSE 1 - c[2]] :
                 c \in thresholds \X {0, 1}}

\* KMeans refuses fewer samples than clusters.
KMeansRaises(values) == Len(values) < 2

\* Variant: the default label taken from the lowest-valued point.
ValidationLowDefault(labels, sorted, noisy) ==
    [i \in 1..Len(labels) |-> labels[At(sorted, 0) + 1]]
\* Lines 51-52: validation = np.full((num_points,), labels_[sorted_indices[-1]]);
\* validation[noisy_indices] = labels_[sorted_indices[0]].
Validation(labels, sorted, noisy) ==
    [i \in 1..Len(labels) |-> IF (i - 1) \in noisy
                              THEN labels[At(sorted, 0) + 1]
                              ELSE labels[At(sorted, -1) + 1]]

\* f1_score(y_true, y_pred) of sklearn with its defaults: the binary F1 of the
\* positive class 1, 2 TP / (2 TP + FP + FN) as an exact fraction, and 0.0
\* when there is no positive at all.
F1Score(y_true, y_pred) ==
    LET tp == Cardinality({i \in 1..Len(y_true) : y_true[i] = 1 /\ y_pred[i] = 1})
        fp == Cardinality({i \in 1..Len(y_true) : y_true[i] = 0 /\ y_pred[i] = 1})
        fn == Cardinality({i \in 1..Len(y_true) : y_true[i] = 1 /\ y_pred[i] = 0})
    IN  IF 2 * tp + fp + fn = 0 THEN <<0, 1>> ELSE <<2 * tp, 2 * tp + fp + fn>>

\* Lines 40-56, the whole function: it has no loop.
noisy_detection ==
    /\ pc = "idle"
    /\ proc' = "noisy_detection"
    /\ \E n \in 0..MaxN :
         \E dv \in DataValueArrays(n), noisy \in NoisySets(n) :
           \E sorted_indices \in ArgSorts(dv) :
             /\ data_values' = dv
             /\ noisy_indices' = noisy
             /\ num_points' = Len(dv)
             /\ sorted_value_list' = sorted_indices
             /\ IF KMeansRaises(dv)
                THEN /\ Raise("ValueError")
                     /\ UNCHANGED <<kmeans_labels, validation, result>>
                ELSE \E labels \in KMeansLabels(dv) :
                       /\ kmeans_labels' = labels
                       /\ validation' = Validation(labels, sorted_indices, noisy)
                       /\ result' = ("kmeans_f1" :>
                              F1Score(labels, Validation(labels, sorted_indices, noisy)))
                       /\ pc' = "done"
                       /\ UNCHANGED error
    /\ UNCHANGED <<args, num_period, num_bins, bins_indices, counters, series, models,
                   curr_model, calls>>

Next ==
    \/ point_removal_enter
    \/ point_removal_bin
    \/ point_removal_return
    \/ remove_high_low_enter
    \/ remove_high_low_bin
    \/ remove_high_low_return
    \/ discover_corrupted_sample_enter
    \/ discover_corrupted_sample_bin
    \/ discover_corrupted_sample_return
    \/ increasing_bin_removal_enter
    \/ increasing_bin_removal_bin
    \/ increasing_bin_removal_return
    \/ sweep_enter
    \/ sweep_sample
    \/ sweep_record
    \/ sweep_return

Spec == Init /\ [][Next]_vars

\* noisy_detection on its own: its inputs are an ordering and a set of noisy
\* indices for every value array.
NextNoisy == noisy_detection

SpecNoisy == Init /\ [][NextNoisy]_vars

\* ------------------------------------------------- the sizing arithmetic
\* The boundaries, the bin counts and the axes are functions of n, percentile
\* and bin_size alone.  SpecSizes applies them to every n up to MaxNSizes,
\* without the orderings and the retraining loop, whose number grows as n!.
InitSizes ==
    /\ pc = "idle"
    /\ proc = "none"
    /\ order = "none"
    /\ percentile \in Percentiles
    /\ plot = FALSE
    /\ bin_size \in 1..MaxBinSize
    /\ kwargs_list = <<>>
    /\ samples = 0
    /\ data_values = <<>>
    /\ noisy_indices = {}
    /\ num_points \in 0..MaxNSizes
    /\ num_period = 0
    /\ num_bins = 0
    /\ sorted_value_list = <<>>
    /\ bins_indices = <<>>
    /\ bin_index = 0
    /\ bin_pos = 0
    /\ combo_i = 0
    /\ metric_list = <<>>
    /\ valuable_list = <<>>
    /\ unvaluable_list = <<>>
    /\ found_rates = <<>>
    /\ perf = <<>>
    /\ perf_list = <<>>
    /\ self_result = <<>>
    /\ models = <<Template>>
    /\ curr_model = 1
    /\ calls = <<>>
    /\ kmeans_labels = <<>>
    /\ validation = <<>>
    /\ result = <<>>
    /\ error = "none"

\* increasing_bin_removal, lines 400-404: the boundaries and
\* frac_datapoints_explored, which divides by num_points.
bins_indices_apply ==
    /\ pc = "idle"
    /\ proc' = "increasing_bin_removal"
    /\ bins_indices' = BinsIndices(num_points, bin_size)
    /\ IF num_points = 0
       THEN Raise("ZeroDivisionError") /\ UNCHANGED result
       ELSE /\ pc' = "done"
            /\ result' = ("frac_datapoints_explored" :>
                              FracExplored(BinsIndices(num_points, bin_size), num_points))
            /\ UNCHANGED error
    /\ UNCHANGED <<args, data_values, noisy_indices, num_points, num_period, num_bins,
                   sorted_value_list, counters, series, models, curr_model, calls,
                   clustering>>

\* point_removal, lines 102-104 and 132, and remove_high_low, lines 189-191
\* and 227: num_period, num_bins and the axis.
x_axis_apply ==
    /\ pc = "idle"
    /\ \E p \in {"point_removal", "remove_high_low"} : proc' = p
    /\ LET period == NumPeriod(num_points, percentile)
           bins == NumBins(num_points, period)
       IN  /\ num_period' = period
           /\ num_bins' = bins
           /\ IF AxisRaises(bins)
              THEN Raise("ZeroDivisionError") /\ UNCHANGED result
              ELSE /\ pc' = "done"
                   /\ result' = ("axis" :> XAxis(bins))
                   /\ UNCHANGED error
    /\ UNCHANGED <<args, data_values, noisy_indices, num_points, sorted_value_list,
                   bins_indices, counters, series, models, curr_model, calls, clustering>>

NextSizes ==
    \/ bins_indices_apply
    \/ x_axis_apply

SpecSizes == InitSizes /\ [][NextSizes]_vars

\* ================================================================ claims
\* Helpers of the properties below.
BenchmarkProcs == {"point_removal", "remove_high_low", "discover_corrupted_sample",
                   "increasing_bin_removal"}
Returned(p) == pc = "done" /\ proc = p
CallsOf(o) == SelectSeq(calls, LAMBDA c : c.op = o)
IsPermutation(s, n) == Len(s) = n /\ Elems(s) = 0..(n - 1)
ValueAt(i) == data_values[i + 1]

\* C1: in every result returned by point_removal, remove_high_low,
\* discover_corrupted_sample and increasing_bin_removal, each non-axis series
\* has exactly as many entries as the "axis" series.
C1_SeriesMatchAxis ==
    (pc = "done" /\ proc \in BenchmarkProcs) =>
        \A key \in DOMAIN result : Len(result[key]) = Len(result["axis"])

\* C2: in discover_corrupted_sample with a non-empty noisy_indices inside
\* [0, n), the corrupt_found entries lie in [0, 1], never decrease from one
\* prefix to the next, and the last entry of the returned series, whose
\* prefix covers all n points, is exactly 1.
C2_FoundRateMonotone ==
    (proc = "discover_corrupted_sample" /\ noisy_indices # {}) =>
        /\ \A i \in 1..Len(found_rates) :
              /\ FracLeq(<<0, 1>>, found_rates[i])
              /\ FracLeq(found_rates[i], <<1, 1>>)
        /\ \A i \in 1..(Len(found_rates) - 1) : FracLeq(found_rates[i], found_rates[i + 1])
        /\ pc = "done" =>
              /\ Len(result["corrupt_found"]) >= 1
              /\ (Len(result["corrupt_found"]) - 1) * num_period >= num_points
              /\ FracEq(result["corrupt_found"][Len(result["corrupt_found"])], <<1, 1>>)

\* A returned discovery with three prefixes whose middle rate is strictly
\* between 0 and 1.
C2_Witness ==
    /\ Returned("discover_corrupted_sample")
    /\ noisy_indices # {}
    /\ Len(found_rates) = 3
    /\ ~FracEq(found_rates[2], <<0, 1>>)
    /\ ~FracEq(found_rates[2], <<1, 1>>)

\* C3: in remove_high_low the two fits at boundary 0 receive the same
\* sequence, all n indices in sorted order, so the first entries of the
\* remove_mostval and remove_leastval series are equal.
C3_FirstEntriesEqual ==
    (proc = "remove_high_low" /\ Len(unvaluable_list) >= 1) =>
        /\ valuable_list[1] = unvaluable_list[1]
        /\ valuable_list[1].train = sorted_value_list
        /\ IsPermutation(valuable_list[1].train, num_points)
        /\ CallsOf("fit")[1].train = CallsOf("fit")[2].train
        /\ CallsOf("fit")[1].iter = 0 /\ CallsOf("fit")[2].iter = 0

\* A returned high/low removal with two boundaries; at the second one the two
\* training subsets differ.
C3_Witness ==
    /\ Returned("remove_high_low")
    /\ Len(unvaluable_list) = 2
    /\ valuable_list[2] # unvaluable_list[2]

\* C4: point_removal retrains and scores exactly once per boundary of
\* range(0, n, num_period), with num_period = max(round(n * percentile), 5)
\* and num_bins = n // num_period; the metric series has num_bins entries when
\* num_period divides n (one entry for n = 5, percentile = 0.05) and more than
\* num_bins entries exactly when it does not.
C4_OneCyclePerBoundary ==
    (proc = "point_removal" /\ pc # "idle") =>
        /\ num_period >= 5
        /\ num_period = 5 => 2 * num_points * percentile[1] <= 11 * percentile[2]
        /\ num_period > 5 =>
              LET d == 2 * (num_points * percentile[1] - num_period * percentile[2])
              IN  d <= percentile[2] /\ 0 - d <= percentile[2]
        /\ num_bins * num_period <= num_points
        /\ num_points < (num_bins + 1) * num_period
        /\ (num_points = 5 /\ percentile = <<1, 20>>) => (num_period = 5 /\ num_bins = 1)
        /\ pc = "done" =>
              /\ Len(calls) = 3 * Len(result[order \o "_add_accuracy"])
              /\ \A k \in 1..Len(metric_list) :
                    /\ calls[3 * k - 2].op = "fit"
                    /\ calls[3 * k - 1].op = "predict"
                    /\ calls[3 * k].op = "evaluate"
                    /\ \A j \in 0..2 : calls[3 * k - j].iter = (k - 1) * num_period
                    /\ (k - 1) * num_period < num_points
              /\ Len(metric_list) * num_period >= num_points
              /\ (num_points % num_period = 0) =>
                    Len(result[order \o "_add_accuracy"]) = num_bins
              /\ (num_points % num_period # 0) <=>
                    Len(result[order \o "_add_accuracy"]) > num_bins
              /\ (num_points = 5 /\ percentile = <<1, 20>>) =>
                    Len(result[order \o "_add_accuracy"]) = 1

\* A returned point removal over a size the period does not divide, with one
\* full bin and one entry more than num_bins.
C4_Witness ==
    /\ Returned("point_removal")
    /\ num_bins = 1
    /\ num_points % num_period # 0
    /\ Len(result[order \o "_add_accuracy"]) = 2

\* C5: the ordering built by point_removal is a permutation of 0..n-1 under
\* all three policies; along it the values never decrease under "ascending"
\* and never increase under "descending"; [0.1,0.5,0.3,0.9,0.2] gives
\* [0,4,2,1,3] ascending and [3,1,2,4,0] descending.
C5_OrderingIsSortedPermutation ==
    (proc = "point_removal" /\ pc # "idle") =>
        /\ IsPermutation(sorted_value_list, Len(data_values))
        /\ order = "ascending" =>
              \A k \in 1..(Len(sorted_value_list) - 1) :
                  ValueAt(sorted_value_list[k]) <= ValueAt(sorted_value_list[k + 1])
        /\ order = "descending" =>
              \A k \in 1..(Len(sorted_value_list) - 1) :
                  ValueAt(sorted_value_list[k]) >= ValueAt(sorted_value_list[k + 1])
        /\ (data_values = <<1, 5, 3, 9, 2>> /\ order = "ascending") =>
              sorted_value_list = <<0, 4, 2, 1, 3>>
        /\ (data_values = <<1, 5, 3, 9, 2>> /\ order = "descending") =>
              sorted_value_list = <<3, 1, 2, 4, 0>>

\* The worked example, ordered descending.
C5_Witness ==
    /\ proc = "point_removal"
    /\ order = "descending"
    /\ data_values = <<1, 5, 3, 9, 2>>
    /\ sorted_value_list = <<3, 1, 2, 4, 0>>

\* C6: point_removal and remove_high_low compute
\* num_bins = n // max(round(n * percentile), 5) >= 0 for every n >= 0 and
\* every percentile, and never end in a division by zero: only a failing fit
\* keeps them from returning, also when num_bins = 0.
C6_NoDivisionByZero ==
    (proc \in {"point_removal", "remove_high_low"}) =>
        /\ num_bins >= 0
        /\ num_period >= 1
        /\ num_bins * num_period <= num_points
        /\ num_points < (num_bins + 1) * num_period
        /\ error # "ZeroDivisionError"
        /\ pc = "raised" => error = "FitError"
        /\ pc = "loop" => ENABLED Next
        /\ pc = "done" => Len(result["axis"]) = num_bins

\* A result returned with num_bins = 0 for a non-empty training set.
C6_Witness ==
    /\ pc = "done"
    /\ proc \in {"point_removal", "remove_high_low"}
    /\ num_points > 0
    /\ num_bins = 0
    /\ result["axis"] = <<>>

\* C7: in discover_corrupted_sample with the reference curves requested, at
\* every axis position i < num_bins (Python index i is position i + 1),
\* corrupt_found[i] <= optimal[i] = min(i / (num_bins * noise_rate), 1) and
\* random[i] = i / num_bins <= optimal[i].
C7_OptimalBoundsFound ==
    (Returned("discover_corrupted_sample") /\ plot /\ noisy_indices # {}) =>
        \A i \in 1..num_bins :
            /\ FracEq(result["optimal"][i],
                      FracMin(<<(i - 1) * num_points,
                                num_bins * Cardinality(noisy_indices)>>, <<1, 1>>))
            /\ FracEq(result["random"][i], <<i - 1, num_bins>>)
            /\ FracLeq(result["random"][i], result["optimal"][i])
            /\ FracLeq(result["corrupt_found"][i], result["optimal"][i])

\* C8: in point_removal, remove_high_low, increasing_bin_removal and
\* ParamSweep.sweep, fit is called only on a clone made in the current
\* iteration, each such clone is fitted exactly once, and the template,
\* evaluator.pred_model or ParamSweep.model (models[1]), is never fitted or
\* otherwise changed.
C8_FitOnlyFreshClones ==
    (proc \in {"point_removal", "remove_high_low", "increasing_bin_removal", "sweep"}) =>
        /\ models[1] = Template
        /\ \A k \in 1..Len(calls) :
              calls[k].op = "fit" =>
                  /\ calls[k].model # 1
                  /\ models[calls[k].model].made_in = calls[k].iter
                  /\ \A j \in 1..Len(calls) :
                        (calls[j].op = "fit" /\ calls[j].model = calls[k].model) => j = k
        /\ \A m \in 1..Len(models) :
              /\ models[m].made_in >= 0 => models[m].fits = 1
              /\ models[m].made_in < 0 => models[m].fits = 0
              /\ models[m].fits =
                    Cardinality({k \in 1..Len(calls) :
                                    calls[k].op = "fit" /\ calls[k].model = m})

\* A returned threshold sweep that fitted two clones of the template.
C8_Witness ==
    /\ Returned("increasing_bin_removal")
    /\ Len(CallsOf("fit")) = 2
    /\ curr_model = 1
    /\ models[2].fits = 1 /\ models[3].fits = 1

\* C9: a fit that fails at some bin of point_removal, remove_high_low or
\* increasing_bin_removal ends the call: the failed fit is the last call
\* made, nothing runs after it, and no result is returned.
C9_FitFailurePropagates ==
    (proc \in {"point_removal", "remove_high_low", "increasing_bin_removal"}
        /\ error = "FitError") =>
        /\ pc = "raised"
        /\ ~ENABLED Next
        /\ result = <<>>
        /\ calls[Len(calls)].op = "fit"
        /\ \A k \in 1..Len(calls) : calls[k].iter <= calls[Len(calls)].iter
        /\ Cardinality({k \in 1..Len(calls) : calls[k].iter = calls[Len(calls)].iter})
              \in {1, 4}
        /\ Len(CallsOf("predict")) = Len(CallsOf("fit")) - 1
        /\ Len(CallsOf("evaluate")) = Len(CallsOf("fit")) - 1

\* A fit that fails at the second boundary, after a first boundary was scored.
C9_Witness ==
    /\ proc \in {"point_removal", "remove_high_low", "increasing_bin_removal"}
    /\ error = "FitError"
    /\ calls[Len(calls)].iter > calls[1].iter
    /\ Len(CallsOf("evaluate")) >= 1

\* The product of the lengths of the candidate sequences.
RECURSIVE LengthProduct(_)
LengthProduct(cands) ==
    IF cands = <<>> THEN 1 ELSE Len(Head(cands)) * LengthProduct(Tail(cands))

\* The tuples of [1..Len(cands) -> value] that pick one candidate per keyword.
Combinations(cands) ==
    {t \in [1..Len(cands) -> 1..MaxCand] :
        \A j \in 1..Len(cands) : t[j] \in Elems(cands[j])}

NoRepeats(s) == Cardinality(Elems(s)) = Len(s)

\* C10 as stated: a returned sweep has made samples times the product of the
\* sequence lengths fits, and its result holds one entry per combination of
\* the cartesian product.
C10_OneEntryPerCombination ==
    Returned("sweep") =>
        /\ Len(CallsOf("fit")) = samples * LengthProduct(kwargs_list)
        /\ Cardinality(DOMAIN result) = LengthProduct(kwargs_list)

\* C10 amended: a returned sweep has visited every position of the cartesian
\* product once, in order, with exactly `samples` fit/predict/score cycles
\* each, so samples times the product of the lengths fits in all; its result
\* holds one entry per distinct str(kwargs), each over `samples` scores,
\* which is one per combination when no candidate sequence repeats a value.
\* A sweep ends without returning only when a fit fails, or when samples = 0
\* and the product is not empty (ZeroDivisionError at the first combination).
C10_SweepVisitsProduct ==
    (proc = "sweep") =>
        /\ Len(Combos) = LengthProduct(kwargs_list)
        /\ Elems(Combos) = Combinations(kwargs_list)
        /\ error = "ZeroDivisionError" =>
              (samples = 0 /\ combo_i = 0 /\ LengthProduct(kwargs_list) > 0)
        /\ pc = "raised" => error \in {"FitError", "ZeroDivisionError"}
        /\ pc = "done" =>
              /\ samples = 0 => LengthProduct(kwargs_list) = 0
              /\ Len(CallsOf("fit")) = samples * LengthProduct(kwargs_list)
              /\ Len(CallsOf("predict")) = Len(CallsOf("fit"))
              /\ Len(CallsOf("evaluate")) = Len(CallsOf("fit"))
              /\ \A k \in 1..Len(CallsOf("fit")) :
                    /\ CallsOf("fit")[k].iter = k - 1
                    /\ CallsOf("fit")[k].kwargs = Combos[((k - 1) \div samples) + 1]
              /\ DOMAIN result = {StrKwargs(Combos[c]) : c \in 1..Len(Combos)}
              /\ \A key \in DOMAIN result : result[key].avg_time_over = samples
              /\ Cardinality(DOMAIN result) = Cardinality(Elems(Combos))
              /\ (\A j \in 1..Len(kwargs_list) : NoRepeats(kwargs_list[j])) =>
                    Cardinality(DOMAIN result) = LengthProduct(kwargs_list)

\* A returned sweep over two keywords with two candidates each and two
\* samples: four combinations, eight fits, four entries.
C10_Witness ==
    /\ Returned("sweep")
    /\ samples = 2
    /\ Len(kwargs_list) = 2
    /\ LengthProduct(kwargs_list) = 4
    /\ Len(CallsOf("fit")) = 8
    /\ Cardinality(DOMAIN result) = 4

C12_NoUndefinedThreshold ==
    (Returned("increasing_bin_removal") /\ MaxOf(data_values) = 0) =>
        \A k \in 1..Len(result["axis"]) : result["axis"][k][2] # 0

\* The label of the cluster of the lowest-valued and of the highest-valued point.
LowLabel == kmeans_labels[At(sorted_value_list, 0) + 1]
HighLabel == kmeans_labels[At(sorted_value_list, -1) + 1]
LowCluster == {i \in 0..(num_points - 1) : kmeans_labels[i + 1] = LowLabel}

\* C13: in noisy_detection, whenever the partition puts exactly the
\* noisy_indices points in the cluster of the lowest value and all other
\* points in the cluster of the highest value, both clusters non-empty, the
\* validation vector equals the cluster assignment and kmeans_f1 is 1.
C13_ExactSplitScoresOne ==
    (Returned("noisy_detection") /\ LowLabel # HighLabel /\ noisy_indices = LowCluster) =>
        /\ validation = kmeans_labels
        /\ FracEq(result["kmeans_f1"], <<1, 1>>)

\* The worked example: values [0,0,0,9,9,9] with noisy_indices {0,1,2}.
C13_Witness ==
    /\ Returned("noisy_detection")
    /\ data_values = <<0, 0, 0, 9, 9, 9>>
    /\ noisy_indices = {0, 1, 2}
    /\ LowCluster = {0, 1, 2}
    /\ validation = kmeans_labels
    /\ result["kmeans_f1"] = <<6, 6>>

\* The indices outside a training sequence.
Outside(train) == (0..(num_points - 1)) \ Elems(train)
FitsAt(b) == SelectSeq(calls, LAMBDA c : c.op = "fit" /\ c.iter = b)

C15_AxisIsProportionRemoved ==
    (proc \in {"point_removal", "remove_high_low"} /\ pc = "done") =>
        \A i \in 0..(num_bins - 1) :
            /\ FracEq(result["axis"][i + 1], <<i, num_bins>>)
            /\ FracEq(result["axis"][i + 1],
                      <<Range(0, num_points, num_period)[i + 1], num_points>>)

PairwiseDistinct(values) == Cardinality(Elems(values)) = Len(values)

\* C16: in increasing_bin_removal with pairwise distinct data values, at every
\* boundary e with reported threshold T = value[sorted[e]] the model is trained
\* on exactly the points whose data value is not above T, so the number of
\* training points is frac_datapoints_explored(e) * n = e + 1, and the final
\* boundary trains on all n points.
C16_TrainedUpToThreshold ==
    (proc = "increasing_bin_removal" /\ PairwiseDistinct(data_values)) =>
        \A k \in 1..Len(perf) :
            LET e == bins_indices[k]
                T == ValueAt(At(sorted_value_list, e))
            IN  /\ Elems(perf[k].train) = {i \in 0..(num_points - 1) : ValueAt(i) <= T}
                /\ Len(perf[k].train) = e + 1
                /\ k = Len(bins_indices) => Len(perf[k].train) = num_points

\* C17: for every n >= 1, every fit call made by point_removal,
\* remove_high_low and increasing_bin_removal receives a non-empty training
\* subset whose indices are pairwise distinct and all lie in [0, n).
C17_FitSubsetsNonEmpty ==
    (proc \in {"point_removal", "remove_high_low", "increasing_bin_removal"}
        /\ num_points >= 1) =>
        \A k \in 1..Len(calls) :
            calls[k].op = "fit" =>
                /\ Len(calls[k].train) >= 1
                /\ Cardinality(Elems(calls[k].train)) = Len(calls[k].train)
                /\ Elems(calls[k].train) \subseteq 0..(num_points - 1)

\* The same partition with the two label identifiers exchanged.
Swapped(labels) == [i \in 1..Len(labels) |-> 1 - labels[i]]

\* C18: the kmeans_f1 returned by noisy_detection does not depend on which of
\* the identifiers 0 and 1 names the low-value cluster: for the same value
\* array, the same partition into two clusters, the same ordering and the same
\* noisy_indices, the run whose labels are exchanged returns the same value.
C18_LabelNamingIrrelevant ==
    (Returned("noisy_detection") /\ LowLabel # HighLabel) =>
        /\ Swapped(kmeans_labels) \in KMeansLabels(data_values)
        /\ FracEq(result["kmeans_f1"],
                  F1Score(Swapped(kmeans_labels),
                          Validation(Swapped(kmeans_labels), sorted_value_list,
                                     noisy_indices)))

\* C19 as claimed: discover_corrupted_sample called with an empty
\* noisy_indices never returns, and the step that ends it in a
\* ZeroDivisionError is the first prefix (b = 0) of the loop, with no
\* found-rate entry produced.
C19_RaisesAtFirstPrefix ==
    [][(proc' = "discover_corrupted_sample" /\ noisy_indices' = {} /\ pc' # pc) =>
          /\ pc' # "done"
          /\ pc' = "raised" =>
               /\ error' = "ZeroDivisionError"
               /\ found_rates' = <<>>
               /\ pc = "loop" /\ bin_index = 0]_vars

\* C19: discover_corrupted_sample called with an empty noisy_indices never
\* returns a result and produces no found-rate entry: with n >= 1 it enters
\* the loop and ends in a ZeroDivisionError at the first prefix (b = 0); with
\* n = 0 it ends in a ZeroDivisionError before the loop, at noise_rate.
C19_EmptyNoisyNeverReturns ==
    (proc = "discover_corrupted_sample" /\ noisy_indices = {}) =>
        /\ pc \in {"loop", "raised"}
        /\ found_rates = <<>>
        /\ result = <<>>
        /\ bin_index = 0
        /\ pc = "raised" => error = "ZeroDivisionError"
        /\ pc = "loop" =>
             /\ num_points >= 1
             /\ error = "none"
             /\ ENABLED discover_corrupted_sample_bin
             /\ ~ENABLED discover_corrupted_sample_return
        /\ num_points = 0 => pc = "raised"

\* Five points, none noisy: the call has ended at the first prefix.
C19_Witness ==
    /\ proc = "discover_corrupted_sample"
    /\ noisy_indices = {}
    /\ num_points = 5
    /\ pc = "raised"
    /\ error = "ZeroDivisionError"
    /\ found_rates = <<>>

====
